---- MODULE Spec2Model ----
(***************************************************************************)
(* The draw.io CSV exporter of cdk/lib/cdk-stack.ts: the AwsResource       *)
(* class hierarchy (constructor, addRef, toCsvLine), the resources list    *)
(* and the drawioCsv template of the class-based CdkStack constructor, and *)
(* the flat-variable CdkStack constructor of the second variant.           *)
(*                                                                         *)
(* A JavaScript string is modelled as the sequence of its characters, so   *)
(* that a comma or a newline inside a name is visible in the emitted text. *)
(*                                                                         *)
(* Spec      drives the classes through arbitrary bounded call sequences:  *)
(*           new Ec2Instance / new ApplicationLoadBalancer, addRef, the    *)
(*           push of the models, and the evaluation of the template.       *)
(* StackSpec runs the two CdkStack constructors, statement by statement,   *)
(*           on the same pair of provisioned identifiers.                  *)
(***************************************************************************)
EXTENDS Integers, Sequences, FiniteSets, TLC

\* Most AwsResource objects constructed in one session of Spec.
MaxNodes == 2

\* Most addRef calls in one session of Spec.
MaxRefs == 2

NL == <<"\n">>

COMMA == <<",">>

EC2_FILL ==
    <<"#","E","D","7","1","0","0">>
ALB_FILL ==
    <<"#","8","C","4","F","F","F">>
STROKE_WHITE ==
    <<"#","f","f","f","f","f","f">>
EC2_SHAPE ==
    <<"m","x","g","r","a","p","h",".","a","w","s","4",".","e","c","2">>
ALB_SHAPE ==
    <<"m","x","g","r","a","p","h",".","a","w","s","4",".","a","p","p","l",
      "i","c","a","t","i","o","n","_","l","o","a","d","_","b","a","l","a",
      "n","c","e","r">>
\* The template literal of the class variant, from its opening backtick to the
\* end of the line "component,fill,stroke,shape,refs".
drawioCsvHead ==
    <<"\n","#","#"," ","S","i","m","p","l","e"," ","w","e","b"," ","s","e",
      "r","v","e","r"," ","A","W","S"," ","d","i","a","g","r","a","m","\n",
      "#"," ","l","a","b","e","l",":"," ","%","c","o","m","p","o","n","e",
      "n","t","%","\n","#"," ","s","t","y","l","e",":"," ","s","h","a","p",
      "e","=","%","s","h","a","p","e","%",";","f","i","l","l","C","o","l",
      "o","r","=","%","f","i","l","l","%",";","s","t","r","o","k","e","C",
      "o","l","o","r","=","%","s","t","r","o","k","e","%",";","v","e","r",
      "t","i","c","a","l","L","a","b","e","l","P","o","s","i","t","i","o",
      "n","=","b","o","t","t","o","m",";","\n","#"," ","n","a","m","e","s",
      "p","a","c","e",":"," ","c","s","v","i","m","p","o","r","t","-","\n",
      "#"," ","c","o","n","n","e","c","t",":"," ","{","\"","f","r","o","m",
      "\"",":","\"","r","e","f","s","\"",","," ","\"","t","o","\"",":","\"",
      "c","o","m","p","o","n","e","n","t","\"",","," ","\"","i","n","v","e",
      "r","t","\"",":","t","r","u","e",","," ","\"","s","t","y","l","e",
      "\"",":","\"","c","u","r","v","e","d","=","0",";","e","n","d","A","r",
      "r","o","w","=","b","l","o","c","k",";","e","n","d","F","i","l","l",
      "=","0",";","d","a","s","h","e","d","=","1",";","s","t","r","o","k",
      "e","C","o","l","o","r","=","#","6","c","8","e","b","f",";","\"","}",
      "\n","#"," ","w","i","d","t","h",":"," ","8","0","\n","#"," ","h","e",
      "i","g","h","t",":"," ","8","0","\n","#"," ","i","g","n","o","r","e",
      ":"," ","r","e","f","s","\n","#"," ","n","o","d","e","s","p","a","c",
      "i","n","g",":"," ","4","0","\n","#"," ","l","e","v","e","l","s","p",
      "a","c","i","n","g",":"," ","4","0","\n","#"," ","e","d","g","e","s",
      "p","a","c","i","n","g",":"," ","4","0","\n","#"," ","l","a","y","o",
      "u","t",":"," ","h","o","r","i","z","o","n","t","a","l","t","r","e",
      "e","\n","#","#"," ","C","S","V"," ","d","a","t","a"," ","s","t","a",
      "r","t","s"," ","b","e","l","o","w"," ","t","h","i","s"," ","l","i",
      "n","e","\n","c","o","m","p","o","n","e","n","t",",","f","i","l","l",
      ",","s","t","r","o","k","e",",","s","h","a","p","e",",","r","e","f",
      "s","\n">>
\* The same stretch of the template literal of the flat variant.
flatCsvHead ==
    <<"\n","#","#"," ","S","i","m","p","l","e"," ","w","e","b"," ","s","e",
      "r","v","e","r"," ","A","W","S"," ","d","i","a","g","r","a","m","\n",
      "#"," ","l","a","b","e","l",":"," ","%","c","o","m","p","o","n","e",
      "n","t","%","\n","#"," ","s","t","y","l","e",":"," ","s","h","a","p",
      "e","=","%","s","h","a","p","e","%",";","f","i","l","l","C","o","l",
      "o","r","=","%","f","i","l","l","%",";","s","t","r","o","k","e","C",
      "o","l","o","r","=","%","s","t","r","o","k","e","%",";","v","e","r",
      "t","i","c","a","l","L","a","b","e","l","P","o","s","i","t","i","o",
      "n","=","b","o","t","t","o","m",";","\n","#"," ","n","a","m","e","s",
      "p","a","c","e",":"," ","c","s","v","i","m","p","o","r","t","-","\n",
      "#"," ","c","o","n","n","e","c","t",":"," ","{","\"","f","r","o","m",
      "\"",":","\"","r","e","f","s","\"",","," ","\"","t","o","\"",":","\"",
      "c","o","m","p","o","n","e","n","t","\"",","," ","\"","i","n","v","e",
      "r","t","\"",":","t","r","u","e",","," ","\"","s","t","y","l","e",
      "\"",":","\"","c","u","r","v","e","d","=","0",";","e","n","d","A","r",
      "r","o","w","=","b","l","o","c","k",";","e","n","d","F","i","l","l",
      "=","0",";","d","a","s","h","e","d","=","1",";","s","t","r","o","k",
      "e","C","o","l","o","r","=","#","6","c","8","e","b","f",";","\"","}",
      "\n","#"," ","w","i","d","t","h",":"," ","8","0","\n","#"," ","h","e",
      "i","g","h","t",":"," ","8","0","\n","#"," ","i","g","n","o","r","e",
      ":"," ","r","e","f","s","\n","#"," ","n","o","d","e","s","p","a","c",
      "i","n","g",":"," ","4","0","\n","#"," ","l","e","v","e","l","s","p",
      "a","c","i","n","g",":"," ","4","0","\n","#"," ","e","d","g","e","s",
      "p","a","c","i","n","g",":"," ","4","0","\n","#"," ","l","a","y","o",
      "u","t",":"," ","h","o","r","i","z","o","n","t","a","l","t","r","e",
      "e","\n","#","#"," ","C","S","V"," ","d","a","t","a"," ","s","t","a",
      "r","t","s"," ","b","e","l","o","w"," ","t","h","i","s"," ","l","i",
      "n","e","\n","c","o","m","p","o","n","e","n","t",",","f","i","l","l",
      ",","s","t","r","o","k","e",",","s","h","a","p","e",",","r","e","f",
      "s","\n">>
ALB_1 ==
    <<"a","l","b","-","1">>
I_1 ==
    <<"i","-","1">>
WEB ==
    <<"w","e","b">>
A_COMMA_B ==
    <<"a",",","b">>
A_NEWLINE_B ==
    <<"a","\n","b">>
\* Strings handed to the constructors in Spec: two well-formed names, the empty
\* string, a name with a comma and a name with a newline.
Names == {ALB_1, I_1, <<>>, A_COMMA_B, A_NEWLINE_B}

\* Strings handed to addRef in Spec. Either is the name of a constructed model in
\* some sessions and of none in others.
RefNames == {ALB_1, I_1}

\* Identifiers the provisioning layer hands to the CdkStack constructors.
ResourceIds == {ALB_1, I_1, WEB}

VARIABLES
    models,            \* the AwsResource objects, in the order constructed
    resources,         \* the resources array: references (indices) into models
    drawioCsv,         \* the drawioCsv string; <<>> before the template is evaluated
    pc,                \* position of the caller of the classes
    instanceId,        \* ec2Instance.instanceId
    loadBalancerName,  \* alb.loadBalancerName
    albName,           \* flat variant: const albName
    ec2Name,           \* flat variant: const ec2Name
    ec2Refs,           \* flat variant: const ec2Refs
    flatCsv,           \* flat variant: the drawioCsv string
    flatPc             \* flat variant: position in the constructor

vars == <<models, resources, drawioCsv, pc, instanceId, loadBalancerName,
          albName, ec2Name, ec2Refs, flatCsv, flatPc>>

flatVars == <<albName, ec2Name, ec2Refs, flatCsv, flatPc>>

inputVars == <<instanceId, loadBalancerName>>

----------------------------------------------------------------------------
\* class AwsResource and its two subclasses

\* constructor(name, fill, stroke, shape); cls is the class being instantiated
AwsResource(cls, name, fill, stroke, shape) ==
    [class |-> cls, name |-> name, fill |-> fill, stroke |-> stroke,
     shape |-> shape, refs |-> <<>>]

\* Ec2Instance with the shape copied from ApplicationLoadBalancer.
Ec2Instance_albShape(name) ==
    AwsResource("Ec2Instance", name, EC2_FILL, STROKE_WHITE, ALB_SHAPE)

Ec2Instance(name) ==
    AwsResource("Ec2Instance", name, EC2_FILL, STROKE_WHITE, EC2_SHAPE)

ApplicationLoadBalancer(name) ==
    AwsResource("ApplicationLoadBalancer", name, ALB_FILL, STROKE_WHITE, ALB_SHAPE)

\* addRef with unshift in place of push.
addRef_unshift(this, ref) ==
    [this EXCEPT !.refs = <<ref>> \o @]

\* this.refs.push(ref)
addRef(this, ref) ==
    [this EXCEPT !.refs = Append(@, ref)]

\* Array.prototype.join on an array of strings
RECURSIVE join(_, _)
join(strs, sep) ==
    IF strs = <<>> THEN <<>>
    ELSE IF Len(strs) = 1 THEN strs[1]
    ELSE strs[1] \o sep \o join(Tail(strs), sep)

\* toCsvLine with a comma after every reference and one more at the end.
toCsvLine_trailingComma(this) ==
    LET refsString == join(this.refs, COMMA)
    IN  this.name \o COMMA \o this.fill \o COMMA \o this.stroke \o COMMA
            \o this.shape \o COMMA \o refsString \o COMMA

toCsvLine(this) ==
    LET refsString == join(this.refs, COMMA)
    IN  this.name \o COMMA \o this.fill \o COMMA \o this.stroke \o COMMA
            \o this.shape \o COMMA \o refsString

\* toCsvLine emptying this.refs while it builds refsString.
toCsvLineEffect_consumesRefs(this) ==
    [this EXCEPT !.refs = <<>>]

\* The receiver after toCsvLine has returned: the method only reads it.
toCsvLineEffect(this) ==
    this

----------------------------------------------------------------------------
\* the class-based CdkStack constructor

\* Array.prototype.push
push(arr, items) ==
    arr \o items

\* The models pushed last-constructed first.
pushArgs_reversed(heap) ==
    [i \in 1..Len(heap) |-> Len(heap) + 1 - i]

\* The arguments of resources.push: every model, in the order constructed.
pushArgs(heap) ==
    [i \in 1..Len(heap) |-> i]

RECURSIVE uniqueLines(_, _)
uniqueLines(lines, seen) ==
    IF lines = <<>> THEN <<>>
    ELSE IF Head(lines) \in seen THEN uniqueLines(Tail(lines), seen)
    ELSE <<Head(lines)>> \o uniqueLines(Tail(lines), seen \cup {Head(lines)})

\* The lines with every repeated line dropped.
csvLines_deduplicated(res, heap) ==
    uniqueLines([i \in 1..Len(res) |-> toCsvLine(heap[res[i]])], {})

\* resources.map(resource => resource.toCsvLine())
csvLines(res, heap) ==
    [i \in 1..Len(res) |-> toCsvLine(heap[res[i]])]

\* the drawioCsv template literal
drawioCsvOf(res, heap) ==
    drawioCsvHead \o join(csvLines(res, heap), NL) \o NL

\* the models after the template has called toCsvLine on every resource
afterRender(res, heap) ==
    [i \in 1..Len(heap) |->
        IF \E k \in 1..Len(res) : res[k] = i THEN toCsvLineEffect(heap[i])
        ELSE heap[i]]

RECURSIVE refCount(_, _)
refCount(heap, n) ==
    IF n = 0 THEN 0 ELSE Len(heap[n].refs) + refCount(heap, n - 1)

----------------------------------------------------------------------------
\* Spec: bounded call sequences over the classes

Init ==
    /\ models = <<>>
    /\ resources = <<>>
    /\ drawioCsv = <<>>
    /\ pc = "build"
    /\ instanceId = <<>>
    /\ loadBalancerName = <<>>
    /\ albName = <<>>
    /\ ec2Name = <<>>
    /\ ec2Refs = <<>>
    /\ flatCsv = <<>>
    /\ flatPc = "off"

NewEc2Instance(name) ==
    /\ pc = "build"
    /\ Len(models) < MaxNodes
    /\ models' = Append(models, Ec2Instance(name))
    /\ UNCHANGED <<resources, drawioCsv, pc, inputVars, flatVars>>

NewApplicationLoadBalancer(name) ==
    /\ pc = "build"
    /\ Len(models) < MaxNodes
    /\ models' = Append(models, ApplicationLoadBalancer(name))
    /\ UNCHANGED <<resources, drawioCsv, pc, inputVars, flatVars>>

AddRef(i, ref) ==
    /\ pc = "build"
    /\ i \in DOMAIN models
    /\ refCount(models, Len(models)) < MaxRefs
    /\ models' = [models EXCEPT ![i] = addRef(@, ref)]
    /\ UNCHANGED <<resources, drawioCsv, pc, inputVars, flatVars>>

PushModels ==
    /\ pc = "build"
    /\ resources' = push(resources, pushArgs(models))
    /\ pc' = "pushed"
    /\ UNCHANGED <<models, drawioCsv, inputVars, flatVars>>

\* The template is evaluated, and then evaluated once more on the same list.
RenderCsv ==
    /\ pc \in {"pushed", "rendered"}
    /\ drawioCsv' = drawioCsvOf(resources, models)
    /\ models' = afterRender(resources, models)
    /\ pc' = IF pc = "pushed" THEN "rendered" ELSE "rerendered"
    /\ UNCHANGED <<resources, inputVars, flatVars>>

Next ==
    \/ \E name \in Names : NewEc2Instance(name)
    \/ \E name \in Names : NewApplicationLoadBalancer(name)
    \/ \E i \in 1..MaxNodes, ref \in RefNames : AddRef(i, ref)
    \/ PushModels
    \/ RenderCsv

Spec == Init /\ [][Next]_vars

----------------------------------------------------------------------------
\* StackSpec: the two CdkStack constructors on the same identifiers

StackInit ==
    /\ models = <<>>
    /\ resources = <<>>
    /\ drawioCsv = <<>>
    /\ pc = "L107"
    /\ instanceId \in ResourceIds
    /\ loadBalancerName \in ResourceIds
    /\ albName = <<>>
    /\ ec2Name = <<>>
    /\ ec2Refs = <<>>
    /\ flatCsv = <<>>
    /\ flatPc = "L276"

\* const ec2Model = new Ec2Instance(ec2Instance.instanceId)
StackNewEc2Model ==
    /\ pc = "L107"
    /\ models' = Append(models, Ec2Instance(instanceId))
    /\ pc' = "L108"
    /\ UNCHANGED <<resources, drawioCsv, inputVars, flatVars>>

\* const albModel = new ApplicationLoadBalancer(alb.loadBalancerName)
StackNewAlbModel ==
    /\ pc = "L108"
    /\ models' = Append(models, ApplicationLoadBalancer(loadBalancerName))
    /\ pc' = "L111"
    /\ UNCHANGED <<resources, drawioCsv, inputVars, flatVars>>

\* ec2Model.addRef(albModel.name)
StackAddRef ==
    /\ pc = "L111"
    /\ models' = [models EXCEPT ![1] = addRef(@, models[2].name)]
    /\ pc' = "L114"
    /\ UNCHANGED <<resources, drawioCsv, inputVars, flatVars>>

\* resources.push(ec2Model, albModel)
StackPush ==
    /\ pc = "L114"
    /\ resources' = push(resources, pushArgs(models))
    /\ pc' = "L116"
    /\ UNCHANGED <<models, drawioCsv, inputVars, flatVars>>

\* const drawioCsv: string = `...`
StackRender ==
    /\ pc = "L116"
    /\ drawioCsv' = drawioCsvOf(resources, models)
    /\ models' = afterRender(resources, models)
    /\ pc' = "done"
    /\ UNCHANGED <<resources, inputVars, flatVars>>

\* const albName = ...; const ec2Name = ...; const ec2Refs = albName
FlatNames ==
    /\ flatPc = "L276"
    /\ albName' = loadBalancerName
    /\ ec2Name' = instanceId
    /\ ec2Refs' = albName'
    /\ flatPc' = "L280"
    /\ UNCHANGED <<models, resources, drawioCsv, pc, inputVars, flatCsv>>

FLAT_ALB_TAIL ==
    <<",","#","8","C","4","F","F","F",",","#","f","f","f","f","f","f",",",
      "m","x","g","r","a","p","h",".","a","w","s","4",".","a","p","p","l",
      "i","c","a","t","i","o","n","_","l","o","a","d","_","b","a","l","a",
      "n","c","e","r",",">>
FLAT_EC2_TAIL ==
    <<",","#","E","D","7","1","0","0",",","#","f","f","f","f","f","f",",",
      "m","x","g","r","a","p","h",".","a","w","s","4",".","e","c","2",",">>
\* the drawioCsv template literal of the flat variant
flatCsvOf(alb, ec2, refs) ==
    flatCsvHead \o alb \o FLAT_ALB_TAIL \o NL \o ec2 \o FLAT_EC2_TAIL \o refs \o NL

FlatRender ==
    /\ flatPc = "L280"
    /\ flatCsv' = flatCsvOf(albName, ec2Name, ec2Refs)
    /\ flatPc' = "done"
    /\ UNCHANGED <<models, resources, drawioCsv, pc, inputVars, albName, ec2Name, ec2Refs>>

StackNext ==
    \/ StackNewEc2Model
    \/ StackNewAlbModel
    \/ StackAddRef
    \/ StackPush
    \/ StackRender
    \/ FlatNames
    \/ FlatRender

StackSpec == StackInit /\ [][StackNext]_vars

----------------------------------------------------------------------------
\* Reading the emitted text back, as the importer of the CSV does

ValidName(name) ==
    /\ name # <<>>
    /\ \A k \in 1..Len(name) : name[k] \notin {",", "\n"}

\* A node as the data model describes it: its name and its references are
\* non-empty and free of the two delimiters.
WellFormed(node) ==
    /\ ValidName(node.name)
    /\ \A k \in 1..Len(node.refs) : ValidName(node.refs[k])

\* The first position of character c in s, 0 when there is none.
FirstIndex(s, c) ==
    LET at == {k \in 1..Len(s) : s[k] = c}
    IN  IF at = {} THEN 0 ELSE CHOOSE k \in at : \A j \in at : k <= j

RECURSIVE Split(_, _)
Split(s, c) ==
    LET k == FirstIndex(s, c)
    IN  IF k = 0 THEN <<s>>
        ELSE <<SubSeq(s, 1, k - 1)>> \o Split(SubSeq(s, k + 1, Len(s)), c)

StartsWith(s, prefix) ==
    /\ Len(prefix) <= Len(s)
    /\ SubSeq(s, 1, Len(prefix)) = prefix

NonEmpty(s) ==
    s # <<>>

\* The lines of the text that follow the header, blank lines dropped.
DataRows(text, head) ==
    SelectSeq(Split(SubSeq(text, Len(head) + 1, Len(text)), "\n"), NonEmpty)

Fields(row) ==
    Split(row, ",")

Component(row) ==
    Fields(row)[1]

\* The names listed in the refs column of a row.
RefsColumn(row) ==
    LET f == Fields(row)
    IN  {f[k] : k \in {j \in 5..Len(f) : f[j] # <<>>}}

Reverse(s) ==
    [k \in 1..Len(s) |-> s[Len(s) + 1 - k]]

Rendered ==
    pc \in {"rendered", "rerendered"}

ConstructedNames ==
    {models[i].name : i \in 1..Len(models)}

----------------------------------------------------------------------------
\* C1: addRef with a target that is not the name of a model already
\* constructed fails: the node's references stay as they were. So every step
\* that changes a node's references adds only names of models that existed
\* before the step, and a text is emitted only in sessions without such a call.
C1_UnknownTargetRejected ==
    [][\A i \in 1..Len(models) :
          (i <= Len(models') /\ models'[i].refs # models[i].refs) =>
              \A k \in (Len(models[i].refs) + 1)..Len(models'[i].refs) :
                  models'[i].refs[k] \in ConstructedNames]_vars

\* C2: a constructor call with an empty name, or a name holding a comma or a
\* newline, fails and creates no node: every constructed node has a valid name.
C2_InvalidNameRejected ==
    \A i \in 1..Len(models) : ValidName(models[i].name)

\* C3: after a render, the names in the component column are exactly the names
\* passed to the constructors, and every name in a refs column is one of them.
C3_RoundTrip ==
    Rendered =>
        LET rows == DataRows(drawioCsv, drawioCsvHead)
            components == {Component(rows[k]) : k \in 1..Len(rows)}
        IN  /\ components = ConstructedNames
            /\ \A k \in 1..Len(rows) : RefsColumn(rows[k]) \subseteq components

\* C7: no node's references hold the same target name twice.
C7_NoDuplicateRefs ==
    \A i \in 1..Len(models) :
        \A a, b \in 1..Len(models[i].refs) :
            a # b => models[i].refs[a] # models[i].refs[b]

----------------------------------------------------------------------------
SCENARIO_A_ROW1 ==
    <<"a","l","b","-","1",",","#","8","C","4","F","F","F",",","#","f","f",
      "f","f","f","f",",","m","x","g","r","a","p","h",".","a","w","s","4",
      ".","a","p","p","l","i","c","a","t","i","o","n","_","l","o","a","d",
      "_","b","a","l","a","n","c","e","r",",">>
SCENARIO_A_ROW2 ==
    <<"i","-","1",",","#","E","D","7","1","0","0",",","#","f","f","f","f",
      "f","f",",","m","x","g","r","a","p","h",".","a","w","s","4",".","e",
      "c","2",",","a","l","b","-","1">>
\* The models of Scenario A: a load balancer "alb-1" with no references, then
\* an instance "i-1" whose one reference is "alb-1".
ScenarioA ==
    /\ Len(models) = 2
    /\ models[1].class = "ApplicationLoadBalancer"
    /\ models[1].name = ALB_1
    /\ models[1].refs = <<>>
    /\ models[2].class = "Ec2Instance"
    /\ models[2].name = I_1
    /\ models[2].refs = <<ALB_1>>

\* C4: Scenario A renders exactly the two expected data rows, the load
\* balancer's first; the rendered list holds the nodes in the order they were
\* constructed, and whenever the nodes are well formed, the data rows of the
\* emitted text are those of the nodes in that order.
C4_ConstructionOrder ==
    Rendered =>
        LET rows == DataRows(drawioCsv, drawioCsvHead)
        IN  /\ ScenarioA => rows = <<SCENARIO_A_ROW1, SCENARIO_A_ROW2>>
            /\ resources = [i \in 1..Len(models) |-> i]
            /\ (\A i \in 1..Len(models) : WellFormed(models[i])) =>
                   /\ Len(rows) = Len(models)
                   /\ \A i \in 1..Len(models) :
                          /\ Component(rows[i]) = models[i].name
                          /\ RefsColumn(rows[i]) =
                                 {models[i].refs[k] : k \in 1..Len(models[i].refs)}

C4_Witness ==
    pc = "rendered" /\ ScenarioA

COLUMNS_LINE ==
    <<"c","o","m","p","o","n","e","n","t",",","f","i","l","l",",","s","t",
      "r","o","k","e",",","s","h","a","p","e",",","r","e","f","s">>
\* Where the i-th row starts in a text that holds the rows one after the other,
\* each followed by a newline, right after the header.
RECURSIVE RowStart(_, _)
RowStart(rows, i) ==
    IF i = 1 THEN Len(drawioCsvHead) + 1
    ELSE RowStart(rows, i - 1) + Len(rows[i - 1]) + 1

NoNewline(s) ==
    \A k \in 1..Len(s) : s[k] # "\n"

\* C5: the emitted text is the header, which ends with the line
\* component,fill,stroke,shape,refs, followed by one row per element of the
\* resources list, the i-th row being that of the i-th element, none dropped,
\* merged or moved; read back line by line (when no row holds a newline) the
\* data rows are exactly these, as many as the list is long.
C5_OneRowPerNode ==
    Rendered =>
        LET n == Len(resources)
            rows == [i \in 1..n |-> toCsvLine(models[resources[i]])]
        IN  /\ StartsWith(drawioCsv, drawioCsvHead)
            /\ SubSeq(drawioCsvHead, Len(drawioCsvHead) - Len(COLUMNS_LINE) - 1,
                      Len(drawioCsvHead)) = NL \o COLUMNS_LINE \o NL
            /\ Len(drawioCsv) = IF n = 0 THEN Len(drawioCsvHead) + 1
                                ELSE RowStart(rows, n) + Len(rows[n])
            /\ \A i \in 1..n :
                   SubSeq(drawioCsv, RowStart(rows, i),
                          RowStart(rows, i) + Len(rows[i])) = rows[i] \o NL
            /\ (\A i \in 1..n : NoNewline(rows[i])) =>
                   DataRows(drawioCsv, drawioCsvHead) = rows

\* Two equal nodes are rendered: both rows are emitted.
C5_Witness ==
    /\ pc = "rendered"
    /\ Len(resources) = 2
    /\ models[resources[1]] = models[resources[2]]
    /\ WellFormed(models[resources[1]])

CI_FILL ==
    <<"#","E","D","7","1","0","0">>
CI_SHAPE ==
    <<"m","x","g","r","a","p","h",".","a","w","s","4",".","e","c","2">>
LB_FILL ==
    <<"#","8","C","4","F","F","F">>
LB_SHAPE ==
    <<"m","x","g","r","a","p","h",".","a","w","s","4",".","a","p","p","l",
      "i","c","a","t","i","o","n","_","l","o","a","d","_","b","a","l","a",
      "n","c","e","r">>
ANY_STROKE ==
    <<"#","f","f","f","f","f","f">>
\* The style table of the two kinds.
StyleOf(class) ==
    IF class = "Ec2Instance"
    THEN [fill |-> CI_FILL, stroke |-> ANY_STROKE, shape |-> CI_SHAPE]
    ELSE [fill |-> LB_FILL, stroke |-> ANY_STROKE, shape |-> LB_SHAPE]

\* C6: the line of a node is its name, the fill, stroke and shape of its kind
\* and its references in append order, separated by commas; with no references
\* nothing follows the fourth comma.
C6_CsvLine ==
    /\ \A i \in 1..Len(models) :
           LET node == models[i]
               line == toCsvLine(node)
               st == StyleOf(node.class)
               lead == node.name \o COMMA \o st.fill \o COMMA \o st.stroke \o COMMA
                           \o st.shape \o COMMA
               rest == SubSeq(line, Len(lead) + 1, Len(line))
           IN  /\ StartsWith(line, lead)
               /\ node.refs = <<>> => rest = <<>>
               /\ (node.refs # <<>> /\ \A k \in 1..Len(node.refs) : ValidName(node.refs[k]))
                      => Split(rest, ",") = node.refs
               /\ WellFormed(node) =>
                      Fields(line) = <<node.name, st.fill, st.stroke, st.shape>>
                                         \o (IF node.refs = <<>> THEN <<<<>>>> ELSE node.refs)
    /\ (Rendered /\ \A i \in 1..Len(models) : WellFormed(models[i])) =>
           LET rows == DataRows(drawioCsv, drawioCsvHead)
           IN  \A i \in 1..Len(models) : rows[i] = toCsvLine(models[i])

\* A node without references and a node with two of them have been rendered.
C6_Witness ==
    /\ pc = "rendered"
    /\ Len(models) = 2
    /\ models[1].refs = <<>>
    /\ Len(models[2].refs) = 2
    /\ WellFormed(models[1])
    /\ WellFormed(models[2])

\* C8: evaluating the template a second time on the same list yields the same
\* text, and an evaluation leaves every node and the list as they were.
C8_RenderIdempotent ==
    [][pc' \in {"rendered", "rerendered"} =>
          /\ models' = models
          /\ resources' = resources
          /\ pc = "rendered" => drawioCsv' = drawioCsv]_vars

\* The template has been evaluated twice on a list with a reference in it.
C8_Witness ==
    /\ pc = "rerendered"
    /\ \E i \in 1..Len(resources) : models[resources[i]].refs # <<>>

\* C9: a step never removes a node nor changes a node's class, name, fill,
\* stroke or shape; a node's references change only by one element appended at
\* the end, and such a step changes nothing else.
C9_OnlyAddRefChangesNode ==
    [][/\ Len(models') >= Len(models)
       /\ \A i \in 1..Len(models) :
              /\ models'[i].class = models[i].class
              /\ models'[i].name = models[i].name
              /\ models'[i].fill = models[i].fill
              /\ models'[i].stroke = models[i].stroke
              /\ models'[i].shape = models[i].shape
              /\ \/ models'[i].refs = models[i].refs
                 \/ /\ Len(models'[i].refs) = Len(models[i].refs) + 1
                    /\ SubSeq(models'[i].refs, 1, Len(models[i].refs)) = models[i].refs
                    /\ Len(models') = Len(models)
                    /\ \A j \in 1..Len(models) : j # i => models'[j] = models[j]
                    /\ UNCHANGED <<resources, drawioCsv, pc>>]_vars

\* addRef has been called twice on one node while another node exists.
C9_Witness ==
    /\ Len(models) = 2
    /\ \E i \in 1..2 : Len(models[i].refs) = 2 /\ models[i].refs[1] # models[i].refs[2]

BothDone ==
    pc = "done" /\ flatPc = "done"

\* C10 as stated: on the same identifiers the two variants emit the same text.
C10_VariantsEquivalent ==
    BothDone => drawioCsv = flatCsv

\* C10 as amended: on the same identifiers the two variants emit the same
\* header and the same two data rows, in opposite orders: the class-based
\* variant the instance's row first, the flat variant the load balancer's.
C10_SameRowsOppositeOrder ==
    BothDone =>
        LET classRows == DataRows(drawioCsv, drawioCsvHead)
            flatRows == DataRows(flatCsv, drawioCsvHead)
        IN  /\ StartsWith(drawioCsv, drawioCsvHead)
            /\ StartsWith(flatCsv, drawioCsvHead)
            /\ Len(flatRows) = 2
            /\ classRows = Reverse(flatRows)
            /\ classRows # flatRows
            /\ Component(classRows[1]) = instanceId
            /\ Component(flatRows[1]) = loadBalancerName

C10_Witness ==
    BothDone /\ instanceId = I_1 /\ loadBalancerName = ALB_1

====
